---- MODULE Spec2Model ----
(***************************************************************************)
(* dscompress: replaces columns of a measurement set by columns stored     *)
(* with the Dysco compressing storage manager (src/dscompress.cpp).        *)
(*                                                                         *)
(* Spec follows main() after its argument loop: open the table for update, *)
(* replace flagged values by NaNs, prepare every requested column, and,    *)
(* when a column has to be replaced, define the new columns, move the data *)
(* and optionally reorder the table.  A table can be run on again after a  *)
(* run has finished.  SpecArgs follows one run of main() from its first    *)
(* line, with the argument loop.                                           *)
(***************************************************************************)
EXTENDS Integers, Sequences, FiniteSets, TLC

\* ------------------------------------------------------------------ bounds

\* Rows of the table.
NRows == 2
\* Cells per row of FLAG and of every complex column.
NCells == 2

\* -------------------------------------------------------------- constants

\* std::numeric_limits<float>::quiet_NaN(): one value outside the numbers.
NaN == -1
\* Defaults of main(); the truncation and nu are in tenths (2.5 and 1.0).
DefaultBitsPerFloat == 8
DefaultBitsPerWeight == 12
DefaultTruncation == 25
StudentsTNu == 10

DataName == "DATA"
WeightName == "WEIGHT_SPECTRUM"
AllColumnNames == {DataName, WeightName}
DyscoName == "DyscoStMan"
StandardName == "StandardStMan"

\* The element kind a column of a measurement set is stored with.
StoredKind(columnName) == IF columnName = WeightName THEN "float" ELSE "complex"

\* The element kind main() instantiates its templates with for a column.
KindOfComplex(columnName) == "complex"
KindOf(columnName) == IF columnName = WeightName THEN "float" ELSE "complex"

\* Per-row shapes (cell counts) a WEIGHT_SPECTRUM column is stored with
\* (0: the column has no shape).
WeightShapes == {0, NCells - 1, NCells}

\* ---------------------------------------------------------------- requests

DefaultConfig ==
    [ bitsPerFloat |-> DefaultBitsPerFloat,
      bitsPerWeight |-> DefaultBitsPerWeight,
      distribution |-> "TruncatedGaussian",
      distributionTruncation |-> DefaultTruncation,
      normalization |-> "AF" ]

\* What the options of the command line can select: two valid
\* configurations, and the invalid ones (-data-bit-rate 0,
\* -weight-bit-rate 0, -truncgaus 0).
ValidConfigs ==
    { DefaultConfig,
      [DefaultConfig EXCEPT !.distribution = "Uniform", !.normalization = "RF",
                            !.bitsPerFloat = 4] }

InvalidConfigs ==
    { [DefaultConfig EXCEPT !.distribution = "Gaussian", !.normalization = "Row",
                            !.bitsPerFloat = 0],
      [DefaultConfig EXCEPT !.distribution = "StudentsT", !.bitsPerWeight = 0],
      [DefaultConfig EXCEPT !.distributionTruncation = 0] }

RequestConfigs == ValidConfigs \cup InvalidConfigs

\* columnNames: the -column options in order (DATA when there is none).
ColumnLists ==
    { <<DataName>>, <<WeightName>>,
      <<DataName, WeightName>>, <<WeightName, DataName>> }

Requests ==
    [ columnNames : ColumnLists, config : RequestConfigs, reorder : BOOLEAN ]

\* ------------------------------------------------------------------ values

ComplexNaN == <<NaN, NaN>>

\* The value a cell holds in the tables the runs start from.
InitialValue(kind, row, i) ==
    IF kind = "complex" THEN <<3 + row, i>> ELSE row

\* The codec of DyscoStMan is lossy: a put stores the quantized value, and
\* quantizing a quantized value again loses more.  NaN is kept.
QuantizeScalar(x) == IF x = NaN THEN NaN ELSE x \div 2

Quantize(kind, v) ==
    IF kind = "complex"
    THEN <<QuantizeScalar(v[1]), QuantizeScalar(v[2])>>
    ELSE QuantizeScalar(v)

\* What a column stores when an array is put in a row.
Store(col, arr) ==
    IF col.mgr = DyscoName
    THEN [i \in DOMAIN arr |-> Quantize(col.kind, arr[i])]
    ELSE arr

\* ArrayColumn::put(row, arr)
Put(col, row, arr) == [col EXCEPT !.cells[row] = Store(col, arr)]

\* ---------------------------------------------------------------- managers

\* DyscoStMan dataManager(bitsPerComplex, bitsPerWeight): the constructor
\* rejects a bit-width of 0.
DyscoStManValid(bitsPerComplex, bitsPerWeight) ==
    bitsPerComplex > 0 /\ bitsPerWeight > 0

\* The parameter the distribution setter is called with (0: it has none).
DistributionParameter(distribution, studentsTNu, distributionTruncation) ==
    CASE distribution = "StudentsT" -> studentsTNu
      [] distribution = "TruncatedGaussian" -> distributionTruncation
      [] OTHER -> 0

\* SetStudentsTDistribution(nu) and SetTruncatedGaussianDistribution(sigma)
\* reject a parameter <= 0.
DistributionValid(distribution, studentsTNu, distributionTruncation) ==
    distribution \in {"StudentsT", "TruncatedGaussian"}
        => DistributionParameter(distribution, studentsTNu, distributionTruncation) > 0

\* The manager after the constructor, the switch over the distribution and
\* SetNormalization.
Configured(config) ==
    [ dataBitCount |-> config.bitsPerFloat,
      weightBitCount |-> config.bitsPerWeight,
      distribution |-> config.distribution,
      parameter |-> DistributionParameter(config.distribution, StudentsTNu,
                                          config.distributionTruncation),
      normalization |-> config.normalization ]

\* ------------------------------------------------------------------- table

NoColumn == [mgr |-> "none", kind |-> "none", shape |-> 0, cells |-> <<>>]

NewColumn(mgr, kind, shape) ==
    [ mgr |-> mgr, kind |-> kind, shape |-> shape,
      cells |-> [row \in 1..NRows |->
                   [i \in 1..shape |-> InitialValue(kind, row, i)]] ]

\* A column as addColumn leaves it: every cell zero until it is written.
EmptyColumnWithoutRows(mgr, kind, shape) ==
    [ mgr |-> mgr, kind |-> kind, shape |-> shape, cells |-> <<>> ]

EmptyColumn(mgr, kind, shape) ==
    [ mgr |-> mgr, kind |-> kind, shape |-> shape,
      cells |-> [row \in 1..NRows |->
                   [i \in 1..shape |-> IF kind = "complex" THEN <<0, 0>> ELSE 0]] ]

ShapeOf(columnName, weightShape) ==
    IF columnName = WeightName THEN weightShape ELSE NCells

\* The tables the first run is started on: DATA has the shape of FLAG and
\* every column is stored by the standard manager, so that there is no
\* DyscoStMan manager.  Tables with compressed columns come from runs.
InitialTables ==
    { [ cols |-> [c \in AllColumnNames |->
                    NewColumn(StandardName, StoredKind(c), ShapeOf(c, ws))],
        old |-> [c \in AllColumnNames |-> NoColumn],
        mgrs |-> <<>> ] :
      ws \in WeightShapes }

\* The FLAG columns: the cells fc are flagged in the rows fr (rows without
\* a flag, rows flagged in part and rows flagged as a whole).
FlagArrays ==
    { [row \in 1..NRows |-> [i \in 1..NCells |-> row \in fr /\ i \in fc]] :
      fr \in SUBSET (1..NRows), fc \in SUBSET (1..NCells) }

VARIABLES
    ms,              \* the table: columns, superseded instances, managers
    flag,            \* the FLAG column
    opened,          \* the table has been opened with Table::Update
    req,             \* the request of the run
    pc,              \* the position of main()
    idx,             \* the position in columnNames of the current loop
    shape,           \* casacore::IPosition shape of main() (0: empty)
    isDataReplaced,  \* bool isDataReplaced of main()
    marked,          \* the columns StManModifier prepared for replacing
    log,             \* what the run has done, in order
    err,             \* the exception that ended the run ("none": none)
    ms0,             \* the table as it was when the run started
    cmd              \* the command line: argv, argi, the positions read, msPath

vars == <<ms, flag, opened, req, pc, idx, shape, isDataReplaced, marked, log, err,
          ms0, cmd>>

\* Entries of the log.
Ev(op, col, row, kind, shp, b) ==
    [op |-> op, col |-> col, row |-> row, kind |-> kind, shape |-> shp, flag |-> b]

columnNames == req.columnNames
NColumns == Len(columnNames)

\* What main() prints itself; the progress lines of createDyscoStManColumn
\* are the entries "create", "construct" and "define".
Say(text) == Ev("print", text, 0, "none", 0, FALSE)

\* std::cout << "Finished. Compression time: ..." once main() is through.
Finished(p) == IF p = "done" THEN <<Say("Finished")>> ELSE <<>>

\* The path of the table, and the command line of a run whose options have
\* been read already.
TablePath == "ms"
ParsedCommand == [argv |-> <<>>, argi |-> 0, reads |-> {}, msPath |-> TablePath]

Init ==
    /\ ms \in InitialTables
    /\ flag \in FlagArrays
    /\ opened = FALSE
    /\ req \in Requests
    /\ pc = "start"
    /\ idx = 1
    /\ shape = 0
    /\ isDataReplaced = FALSE
    /\ marked = {}
    /\ log = <<>>
    /\ err = "none"
    /\ ms0 = ms
    /\ cmd = ParsedCommand

\* ------------------------------------------------------------- exceptions

\* An exception leaves main(), which catches nothing: the run ends where it
\* is and the table stays as the failing call left it.
RaiseRestoring(table, events, what) ==
    /\ pc' = "error"
    /\ err' = what
    /\ ms' = ms0
    /\ log' = log \o events \o <<Ev("fail", what, 0, "none", 0, FALSE)>>
    /\ UNCHANGED idx

Raise(table, events, what) ==
    /\ pc' = "error"
    /\ err' = what
    /\ ms' = table
    /\ log' = log \o events \o <<Ev("fail", what, 0, "none", 0, FALSE)>>
    /\ UNCHANGED idx

\* ---------------------------------------------------------------- opening

\* The settings are printed, then new casacore::MeasurementSet(msPath,
\* casacore::Table::Update) opens the table, which throws when msPath is
\* not a table.
OpenSkippingPass ==
    /\ pc = "start"
    /\ cmd.msPath = TablePath
    /\ opened' = TRUE
    /\ pc' = "prepare"
    /\ idx' = 1
    /\ log' = log \o <<Say("settings"), Say("Opening ms"), Say("Replacing flagged values by NaNs")>>
    /\ UNCHANGED <<ms, err>>
    /\ UNCHANGED <<cmd, flag, req, shape, isDataReplaced, marked, ms0>>

Open ==
    /\ pc = "start"
    /\ IF cmd.msPath = TablePath
       THEN /\ opened' = TRUE
            /\ pc' = "preprocess"
            /\ idx' = 1
            /\ log' = log \o <<Say("settings"), Say("Opening ms"),
                                Say("Replacing flagged values by NaNs")>>
            /\ UNCHANGED <<ms, err>>
       ELSE /\ Raise(ms, <<Say("settings"), Say("Opening ms")>>, "open")
            /\ UNCHANGED opened
    /\ UNCHANGED <<cmd, flag, req, shape, isDataReplaced, marked, ms0>>

\* ----------------------------------------------------------- preprocessing

\* The inner loop over the cells of one row: a flagged cell becomes NaN.
ReplaceFlagged(dataArr, flagArr) ==
    [i \in DOMAIN dataArr |-> IF flagArr[i] THEN ComplexNaN ELSE dataArr[i]]

\* bool isChanged after the inner loop.
IsChanged(dataArr, flagArr) == \E i \in DOMAIN dataArr : flagArr[i]

\* The assignment *d = NaN changes the value of the cell.
Replaces(kind, dataArr, flagArr) ==
    \E i \in DOMAIN dataArr :
        flagArr[i] /\ dataArr[i] # (IF kind = "complex" THEN ComplexNaN ELSE NaN)

\* The loop over the rows from `row` on: the column and the puts issued
\* (the entry of a put tells whether the row has changed).
RECURSIVE ReplaceRows(_, _, _, _)
ReplaceRows(columnName, col, puts, row) ==
    IF row > NRows
    THEN [col |-> col, puts |-> puts]
    ELSE LET dataArr == col.cells[row]
             flagArr == flag[row]
         IN  IF IsChanged(dataArr, flagArr)
             THEN ReplaceRows(columnName,
                              Put(col, row, ReplaceFlagged(dataArr, flagArr)),
                              Append(puts, Ev("put", columnName, row, col.kind, col.shape,
                                              Replaces(col.kind, dataArr, flagArr))),
                              row + 1)
             ELSE ReplaceRows(columnName, col, puts, row + 1)

\* if(columnName != "WEIGHT_SPECTRUM")
NeedsPassAlways(columnName) == TRUE
NeedsPass(columnName) == columnName # WeightName

\* One iteration of the loop "Replacing flagged values by NaNs"; after the
\* last one the time taken is printed.  ArrayColumn throws for a column
\* the table does not have.
Preprocess ==
    /\ pc = "preprocess"
    /\ LET columnName == columnNames[idx]
           r == ReplaceRows(columnName, ms.cols[columnName], <<>>, 1)
           after == IF idx = NColumns THEN <<Say("Time taken")>> ELSE <<>>
       IN  IF NeedsPass(columnName) /\ columnName \notin AllColumnNames
           THEN Raise(ms, <<>>, "nocolumn")
           ELSE /\ IF NeedsPass(columnName)
                   THEN /\ ms' = [ms EXCEPT !.cols[columnName] = r.col]
                        /\ log' = log \o r.puts
                                     \o <<Ev("preprocessed", columnName, 0, "complex", 0, FALSE)>>
                                     \o after
                   ELSE /\ ms' = ms
                        /\ log' = log \o after
                /\ IF idx = NColumns
                   THEN pc' = "prepare" /\ idx' = 1
                   ELSE pc' = pc /\ idx' = idx + 1
                /\ UNCHANGED err
    /\ UNCHANGED <<cmd, flag, opened, req, shape, isDataReplaced, marked, ms0>>

\* ---------------------------------------------------------------- prepare

\* StManModifier::PrepareReplacingColumn<T>(columnName, "DyscoStMan", ...,
\* shape): a column already stored by the manager is not replaced; of a
\* column to replace the shape is recorded, and it has to be a shape and
\* the shape of the columns recorded before it.
PrepareReplacingColumn(table, columnName, kind, shp) ==
    LET col == table.cols[columnName]
    IN  IF col.kind # kind
        THEN [replaced |-> FALSE, shape |-> shp, error |-> "type"]
        ELSE IF col.mgr = DyscoName
        THEN [replaced |-> FALSE, shape |-> shp, error |-> "none"]
        ELSE IF col.shape = 0 \/ (shp # 0 /\ shp # col.shape)
        THEN [replaced |-> FALSE, shape |-> shp, error |-> "shape"]
        ELSE [replaced |-> TRUE, shape |-> col.shape, error |-> "none"]

\* if(isDataReplaced) after the loop over the columns.
AfterPrepareAlways(replaced) == "create"
AfterPrepare(replaced) == IF replaced THEN "create" ELSE "done"

\* casacore::IPosition shape is declared before the loop and handed by
\* reference to every call: a call sees the shape the calls before it
\* recorded.
ShapeArgumentFresh(shp) == 0
ShapeArgument(shp) == shp

\* One iteration of the loop that prepares the columns.
Prepare ==
    /\ pc = "prepare"
    /\ LET columnName == columnNames[idx]
           r == PrepareReplacingColumn(ms, columnName, KindOf(columnName),
                                       ShapeArgument(shape))
           ev == Ev("prepare", columnName, 0, KindOf(columnName), r.shape, r.replaced)
       IN  IF r.error # "none"
           THEN /\ Raise(ms, <<ev>>, r.error)
                /\ UNCHANGED <<shape, isDataReplaced, marked>>
           ELSE /\ shape' = r.shape
                /\ isDataReplaced' = (r.replaced \/ isDataReplaced)
                /\ marked' = IF r.replaced THEN marked \cup {columnName} ELSE marked
                /\ log' = Append(log, ev)
                            \o (IF idx = NColumns
                                THEN Finished(AfterPrepare(r.replaced \/ isDataReplaced))
                                ELSE <<>>)
                /\ IF idx = NColumns
                   THEN pc' = AfterPrepare(isDataReplaced') /\ idx' = 1
                   ELSE pc' = pc /\ idx' = idx + 1
                /\ UNCHANGED <<ms, err>>
    /\ UNCHANGED <<cmd, flag, opened, req, ms0>>

\* ----------------------------------------------------------------- create

\* casacore::ArrayColumnDesc<T> columnDesc(name, "", "DyscoStMan",
\* "DyscoStMan", shape)
ColumnDescDataShape(name, kind, shp) == [name |-> name, kind |-> kind, shape |-> NCells]
ColumnDesc(name, kind, shp) == [name |-> name, kind |-> kind, shape |-> shp]

\* try { ms.findDataManager("DyscoStMan"); isAlreadyUsed = true; } catch ...
IsAlreadyUsedNever(table) == FALSE
IsAlreadyUsed(table) == Len(table.mgrs) > 0

\* Table::addColumn: a column of that name stored by another manager is
\* superseded by the new one; a column of that name that the manager
\* stores already makes addColumn throw.
CanAddColumn(table, columnDesc) == table.cols[columnDesc.name].mgr # DyscoName

AddColumn(table, columnDesc) ==
    [table EXCEPT !.old[columnDesc.name] = table.cols[columnDesc.name],
                  !.cols[columnDesc.name] =
                      EmptyColumn(DyscoName, columnDesc.kind, columnDesc.shape)]

\* createDyscoStManColumn<T>(ms, name, shape, bitsPerComplex, bitsPerWeight,
\* normalization, distribution, studentsTNu, distributionTruncation): the
\* table, what was done and the exception thrown ("none": none).
createDyscoStManColumn(table, name, kind, shp, config, studentsTNu) ==
    LET columnDesc == ColumnDesc(name, kind, shp)
        call == Ev("create", name, 0, kind, shp, FALSE)
        construct == Ev("construct", name, 0, kind, shp, FALSE)
    IN  IF IsAlreadyUsed(table)
        THEN \* ms.addColumn(columnDesc, "DyscoStMan", false)
             IF CanAddColumn(table, columnDesc)
             THEN [ms |-> AddColumn(table, columnDesc),
                   events |-> <<call, Ev("define", name, 0, kind, columnDesc.shape, FALSE)>>,
                   error |-> "none"]
             ELSE [ms |-> table, events |-> <<call>>, error |-> "exists"]
        ELSE IF ~ DyscoStManValid(config.bitsPerFloat, config.bitsPerWeight)
                \/ ~ DistributionValid(config.distribution, studentsTNu,
                                       config.distributionTruncation)
        THEN [ms |-> table, events |-> <<call>>, error |-> "config"]
        ELSE \* ms.addColumn(columnDesc, dataManager)
             IF CanAddColumn(table, columnDesc)
             THEN [ms |-> [AddColumn(table, columnDesc) EXCEPT
                             !.mgrs = Append(table.mgrs, Configured(config))],
                   events |-> <<call, construct,
                                Ev("define", name, 0, kind, columnDesc.shape, TRUE)>>,
                   error |-> "none"]
             ELSE [ms |-> table, events |-> <<call, construct>>, error |-> "exists"]

\* One iteration of the loop that defines the columns.
Create ==
    /\ pc = "create"
    /\ LET columnName == columnNames[idx]
           r == createDyscoStManColumn(ms, columnName, KindOf(columnName), shape,
                                       req.config, StudentsTNu)
       IN  IF r.error # "none"
           THEN Raise(r.ms, r.events, r.error)
           ELSE /\ ms' = r.ms
                /\ log' = log \o r.events
                /\ IF idx = NColumns
                   THEN pc' = "move" /\ idx' = 1
                   ELSE pc' = pc /\ idx' = idx + 1
                /\ UNCHANGED err
    /\ UNCHANGED <<cmd, flag, opened, req, shape, isDataReplaced, marked, ms0>>

\* The table format fails to add the column (an I/O error of addColumn).
CreateFails ==
    /\ pc = "create"
    /\ LET columnName == columnNames[idx]
       IN  Raise(ms, <<Ev("create", columnName, 0, KindOf(columnName), shape, FALSE)>>, "io")
    /\ UNCHANGED <<cmd, flag, opened, req, shape, isDataReplaced, marked, ms0>>

\* ------------------------------------------------------------------- move

\* The loop of StManModifier::MoveColumnData<T> over the rows from `row`
\* up to `last`: each value of the superseded column is put in the new one.
RECURSIVE MoveRows(_, _, _, _, _, _)
MoveRows(columnName, kind, from, to, row, last) ==
    IF row > last
    THEN to
    ELSE MoveRows(columnName, kind, from, Put(to, row, from.cells[row]), row + 1, last)

RECURSIVE MoveEvents(_, _, _, _)
MoveEvents(columnName, kind, row, last) ==
    IF row > last
    THEN <<>>
    ELSE <<Ev("move", columnName, row, kind, 0, FALSE)>>
             \o MoveEvents(columnName, kind, row + 1, last)

\* StManModifier::MoveColumnData<T>(columnName) up to row `last`; after the
\* last row of the table the superseded column is dropped.
MoveColumnData(table, columnName, kind, last) ==
    LET moved == MoveRows(columnName, kind, table.old[columnName],
                          table.cols[columnName], 1, last)
    IN  IF last = NRows
        THEN [table EXCEPT !.cols[columnName] = moved,
                           !.old[columnName] = NoColumn]
        ELSE [table EXCEPT !.cols[columnName] = moved]

\* if(reorder) after the data of the columns has been moved.
AfterMoveRedefine(reorder) == "create"
AfterMoveAlways(reorder) == "reorder"
AfterMove(reorder) == IF reorder THEN "reorder" ELSE "done"

\* One iteration of the loop that moves the data of the columns.
Move ==
    /\ pc = "move"
    /\ LET columnName == columnNames[idx]
           kind == KindOf(columnName)
       IN  IF ms.old[columnName] = NoColumn
           THEN Raise(ms, <<>>, "nocolumn")
           ELSE /\ ms' = MoveColumnData(ms, columnName, kind, NRows)
                /\ log' = log \o MoveEvents(columnName, kind, 1, NRows)
                             \o <<Ev("moved", columnName, 0, kind, 0, FALSE)>>
                             \o (IF idx = NColumns
                                 THEN Finished(AfterMove(req.reorder))
                                 ELSE <<>>)
                /\ IF idx = NColumns
                   THEN pc' = AfterMove(req.reorder) /\ idx' = 1
                   ELSE pc' = pc /\ idx' = idx + 1
                /\ UNCHANGED err
    /\ UNCHANGED <<cmd, flag, opened, req, shape, isDataReplaced, marked, ms0>>

\* The get or put of row `row` fails: the rows before it have been moved.
MoveFails ==
    /\ pc = "move"
    /\ \E row \in 1..NRows :
         LET columnName == columnNames[idx]
             kind == KindOf(columnName)
         IN  /\ ms.old[columnName] # NoColumn
             /\ Raise(MoveColumnData(ms, columnName, kind, row - 1),
                      MoveEvents(columnName, kind, 1, row - 1), "io")
    /\ UNCHANGED <<cmd, flag, opened, req, shape, isDataReplaced, marked, ms0>>

\* ---------------------------------------------------------------- reorder

\* StManModifier::Reorder(ms, msPath): the table is written again, which
\* stores the values of the compressed columns through their manager once
\* more.
ReorderTable(table) ==
    [table EXCEPT
       !.cols = [c \in AllColumnNames |->
                   [table.cols[c] EXCEPT
                      !.cells = [row \in 1..NRows |->
                                   Store(table.cols[c], table.cols[c].cells[row])]]]]

Reorder ==
    /\ pc = "reorder"
    /\ ms' = ReorderTable(ms)
    /\ log' = log \o <<Ev("reorder", "", 0, "none", 0, FALSE)>> \o Finished("done")
    /\ pc' = "done"
    /\ UNCHANGED <<cmd, flag, opened, req, idx, shape, isDataReplaced, marked, err, ms0>>

\* ------------------------------------------------------------------- runs

\* dscompress is run again on the table a finished run has left.
StartRun ==
    /\ pc = "done"
    /\ req' \in Requests
    /\ pc' = "start"
    /\ opened' = FALSE
    /\ idx' = 1
    /\ shape' = 0
    /\ isDataReplaced' = FALSE
    /\ marked' = {}
    /\ log' = <<>>
    /\ err' = "none"
    /\ ms0' = ms
    /\ UNCHANGED <<ms, flag, cmd>>

Next ==
    \/ Open
    \/ Preprocess
    \/ Prepare
    \/ Create
    \/ CreateFails
    \/ Move
    \/ MoveFails
    \/ Reorder
    \/ StartRun

Spec == Init /\ [][Next]_vars

\* -------------------------------------------------------------- arguments

\* Arguments of a command line: its length is argc - 1.
MaxArgs == 3

\* The options main() knows, with the '-' they are given with.
ValueOptions == {"-data-bit-rate", "-weight-bit-rate", "-truncgaus", "-column"}
KnownOptions ==
    ValueOptions \cup
    {"-reorder", "-gaussian", "-uniform", "-studentt",
     "-rfnormalization", "-afnormalization", "-rownormalization"}

\* What an argument can be: a known option, another argument with a '-', a
\* number, a column name, the path of the table.
Tokens == KnownOptions \cup {"-bogus", "4", WeightName, TablePath}

\* What a read past the arguments gives when the run goes on.
GarbageToken == "?"

\* argv[argi][0] == '-'
Dash(token) == token \in KnownOptions \cup {"-bogus"}

\* atoi(argv[argi]): 0 for what is not a number.
Atoi(token) == IF token = "4" THEN 4 ELSE 0
\* atof(argv[argi]), in tenths.
Atof(token) == IF token = "4" THEN 40 ELSE 0

Argc == Len(cmd.argv) + 1

\* The chain of if(p == ...): whether it has a branch for p before the
\* final else.
RecognizedAlways(p) == TRUE
Recognized(p) == p \in KnownOptions

\* The branch of the chain for option p, with the argument after it.
ApplyOption(r, p, value) ==
    CASE p = "-data-bit-rate" -> [r EXCEPT !.config.bitsPerFloat = Atoi(value)]
      [] p = "-weight-bit-rate" -> [r EXCEPT !.config.bitsPerWeight = Atoi(value)]
      [] p = "-reorder" -> [r EXCEPT !.reorder = TRUE]
      [] p = "-gaussian" -> [r EXCEPT !.config.distribution = "Gaussian"]
      [] p = "-uniform" -> [r EXCEPT !.config.distribution = "Uniform"]
      [] p = "-studentt" -> [r EXCEPT !.config.distribution = "StudentsT"]
      [] p = "-truncgaus" ->
            [r EXCEPT !.config.distribution = "TruncatedGaussian",
                      !.config.distributionTruncation = Atof(value)]
      [] p = "-column" -> [r EXCEPT !.columnNames = Append(r.columnNames, value)]
      [] p = "-rfnormalization" -> [r EXCEPT !.config.normalization = "RF"]
      [] p = "-afnormalization" -> [r EXCEPT !.config.normalization = "AF"]
      [] p = "-rownormalization" -> [r EXCEPT !.config.normalization = "Row"]
      [] OTHER -> r

\* if(columnNames.empty()) columnNames.push_back("DATA")
WithDefaultColumn(r) ==
    IF r.columnNames = <<>> THEN [r EXCEPT !.columnNames = <<DataName>>] ELSE r

\* The FLAG column of the runs that start at the command line.
CommandFlags == [row \in 1..NRows |-> [i \in 1..NCells |-> row = 1 /\ i = 1]]

CommandLines == UNION {[1..n -> Tokens] : n \in 0..MaxArgs}

InitArgs ==
    /\ ms \in InitialTables
    /\ flag = CommandFlags
    /\ opened = FALSE
    /\ req = [columnNames |-> <<>>, config |-> DefaultConfig, reorder |-> FALSE]
    /\ pc = "parse"
    /\ idx = 1
    /\ shape = 0
    /\ isDataReplaced = FALSE
    /\ marked = {}
    /\ log = <<>>
    /\ err = "none"
    /\ ms0 = ms
    /\ cmd \in [argv : CommandLines, argi : {1}, reads : {{}}, msPath : {""}]

\* if(argc < 2): the usage text is printed and main() returns.
Usage ==
    /\ pc = "parse"
    /\ Argc < 2
    /\ log' = Append(log, Say("usage"))
    /\ pc' = "done"
    /\ UNCHANGED <<ms, flag, opened, req, idx, shape, isDataReplaced, marked, err,
                   ms0, cmd>>

\* One iteration of the argument loop whose reads are of arguments given.
ParseStep ==
    /\ pc = "parse"
    /\ Argc >= 2
    /\ cmd.argi < Argc
    /\ Dash(cmd.argv[cmd.argi])
    /\ LET p == cmd.argv[cmd.argi]
       IN  IF p \in ValueOptions
           THEN /\ cmd.argi + 1 < Argc
                /\ req' = ApplyOption(req, p, cmd.argv[cmd.argi + 1])
                /\ cmd' = [cmd EXCEPT !.argi = cmd.argi + 2,
                                      !.reads = cmd.reads \cup {cmd.argi, cmd.argi + 1}]
                /\ UNCHANGED <<ms, pc, log, err, idx>>
           ELSE IF Recognized(p)
           THEN /\ req' = ApplyOption(req, p, "")
                /\ cmd' = [cmd EXCEPT !.argi = cmd.argi + 1,
                                      !.reads = cmd.reads \cup {cmd.argi}]
                /\ UNCHANGED <<ms, pc, log, err, idx>>
           ELSE \* throw std::runtime_error("Invalid parameter: ...")
                /\ Raise(ms, <<>>, "input")
                /\ cmd' = [cmd EXCEPT !.reads = cmd.reads \cup {cmd.argi}]
                /\ UNCHANGED req
    /\ UNCHANGED <<flag, opened, shape, isDataReplaced, marked, ms0>>

\* An iteration for an option that takes a value and is the last argument:
\* after ++argi, argv[argi] is argv[argc], the null pointer, and atoi, atof
\* and std::string are undefined for it.  The run crashes, or goes on with
\* whatever the read gave.
ParseStepPastEnd ==
    /\ pc = "parse"
    /\ Argc >= 2
    /\ cmd.argi < Argc
    /\ cmd.argv[cmd.argi] \in ValueOptions
    /\ cmd.argi + 1 >= Argc
    /\ cmd' = [cmd EXCEPT !.argi = cmd.argi + 2,
                          !.reads = cmd.reads \cup {cmd.argi, cmd.argi + 1}]
    /\ \/ /\ Raise(ms, <<>>, "crash")
          /\ UNCHANGED req
       \/ /\ req' = ApplyOption(req, cmd.argv[cmd.argi], GarbageToken)
          /\ UNCHANGED <<ms, pc, log, err, idx>>
    /\ UNCHANGED <<flag, opened, shape, isDataReplaced, marked, ms0>>

\* After the loop: the default column, and msPath = argv[argi].
ParseEnd ==
    /\ pc = "parse"
    /\ Argc >= 2
    /\ cmd.argi < Argc
    /\ ~ Dash(cmd.argv[cmd.argi])
    /\ req' = WithDefaultColumn(req)
    /\ cmd' = [cmd EXCEPT !.msPath = cmd.argv[cmd.argi],
                          !.reads = cmd.reads \cup {cmd.argi}]
    /\ pc' = "start"
    /\ UNCHANGED <<ms, flag, opened, idx, shape, isDataReplaced, marked, log, err, ms0>>

\* After the loop with no argument left: argv[argi] is the null pointer
\* argv[argc], or lies behind it, and std::string msPath = argv[argi] is
\* undefined.  The run crashes, or goes on with whatever the read gave.
ParseEndPastEnd ==
    /\ pc = "parse"
    /\ Argc >= 2
    /\ cmd.argi >= Argc
    /\ \/ /\ Raise(ms, <<>>, "crash")
          /\ cmd' = [cmd EXCEPT !.reads = cmd.reads \cup {cmd.argi}]
          /\ UNCHANGED req
       \/ /\ req' = WithDefaultColumn(req)
          /\ cmd' = [cmd EXCEPT !.msPath = GarbageToken,
                                !.reads = cmd.reads \cup {cmd.argi}]
          /\ pc' = "start"
          /\ UNCHANGED <<ms, log, err, idx>>
    /\ UNCHANGED <<flag, opened, shape, isDataReplaced, marked, ms0>>

NextArgs ==
    \/ Usage
    \/ ParseStep
    \/ ParseStepPastEnd
    \/ ParseEnd
    \/ ParseEndPastEnd
    \/ Open
    \/ Preprocess
    \/ Prepare
    \/ Create
    \/ CreateFails
    \/ Move
    \/ MoveFails
    \/ Reorder

SpecArgs == InitArgs /\ [][NextArgs]_vars

\* ================================================================= claims

Requested == {columnNames[i] : i \in 1..NColumns}
Terminal == pc \in {"done", "error"}
Ops(ops) == {i \in DOMAIN log : log[i].op \in ops}
Bound(table, columnName) == table.cols[columnName].mgr = DyscoName

\* ---------------------------------------------------------------------- C1
\* Every requested column was stored by DyscoStMan when the run started.
AllBoundAtStart == \A c \in Requested : Bound(ms0, c)

\* C1: a run started on a table in which every requested column is stored
\* by DyscoStMan already constructs no manager, defines no column and moves
\* no data: after the columns have been prepared it is done, without an
\* error.
C1_RerunMigratesNothing ==
    AllBoundAtStart =>
        /\ Ops({"create", "construct", "define", "move", "moved", "reorder"}) = {}
        /\ pc \in {"start", "preprocess", "prepare", "done"}
        /\ err = "none"

C1_Witness == AllBoundAtStart /\ pc = "done" /\ Ops({"prepare"}) # {}

\* ---------------------------------------------------------------------- C2
InvalidRequest ==
    \/ ~ DyscoStManValid(req.config.bitsPerFloat, req.config.bitsPerWeight)
    \/ ~ DistributionValid(req.config.distribution, StudentsTNu,
                           req.config.distributionTruncation)

\* C2: a request with a data or weight bit-width of 0 or a truncation <= 0
\* ends in a configuration error, and when it has ended the table has not
\* been opened for update and none of its cells, columns and managers has
\* changed.
C2_InvalidConfigFailsFirst ==
    InvalidRequest =>
        /\ pc # "done"
        /\ pc = "error" => (err = "config" /\ ~ opened /\ ms = ms0)

\* ---------------------------------------------------------------------- C3
\* The pass over the column is complete and its migration has not begun.
Preprocessed(columnName) ==
    /\ \E i \in Ops({"preprocessed"}) : log[i].col = columnName
    /\ \A i \in Ops({"define"}) : log[i].col # columnName

\* C3: after the pass over a requested column other than WEIGHT_SPECTRUM,
\* every cell whose flag is set holds NaN in both components and every
\* other cell holds the value it had before the pass.
C3_FlagPropagation ==
    \A c \in Requested \ {WeightName} :
        Preprocessed(c) =>
            \A row \in 1..NRows : \A i \in 1..NCells :
                ms.cols[c].cells[row][i] =
                    IF flag[row][i] THEN ComplexNaN ELSE ms0.cols[c].cells[row][i]

\* ---------------------------------------------------------------------- C4
\* The events the step appends to the log of the run.
Appended == IF Len(log') >= Len(log) THEN (Len(log) + 1)..Len(log') ELSE {}

\* C4: the table holds at most one DyscoStMan manager; once it exists no
\* step changes it, whatever the request says, and no step constructs a
\* manager again.
C4_ManagerImmutable ==
    /\ [](Len(ms.mgrs) <= 1)
    /\ [][Len(ms.mgrs) > 0 =>
            /\ ms'.mgrs = ms.mgrs
            /\ pc = "create" => \A i \in Appended : log'[i].op # "construct"]_vars

\* A column has been attached to the manager by a run that asks for another
\* configuration.
C4_Witness ==
    /\ \E i \in Ops({"define"}) : ~ log[i].flag
    /\ Len(ms.mgrs) = 1
    /\ ms.mgrs[1] # Configured(req.config)

\* ---------------------------------------------------------------------- C5
\* C5: every column a run defines is defined with the per-row shape the
\* column of that name had before the run.
C5_ShapePreserved ==
    \A i \in Ops({"define"}) :
        /\ log[i].shape = ms0.cols[log[i].col].shape
        /\ Terminal => ms.cols[log[i].col].shape = ms0.cols[log[i].col].shape

\* Both columns have been migrated by one run.
C5_Witness ==
    /\ pc = "done"
    /\ \A c \in AllColumnNames : \E i \in Ops({"define"}) : log[i].col = c

\* ---------------------------------------------------------------------- C6
\* The request names a column stored by DyscoStMan and one that is not.
Mixed == (\E c \in Requested : Bound(ms0, c)) /\ (\E c \in Requested : ~ Bound(ms0, c))

Migrated(columnName) ==
    /\ \E i \in Ops({"define"}) : log[i].col = columnName
    /\ \E i \in Ops({"moved"}) : log[i].col = columnName

\* C6: a column is defined and its data moved exactly when Prepare marked
\* it; in a mixed request the columns migrated already are skipped without
\* an error and the others are migrated.
C6_OnlyMarkedMigrated ==
    /\ \A i \in Ops({"create", "define", "move"}) : log[i].col \in marked
    /\ (Mixed /\ Terminal /\ err # "io") =>
          /\ pc = "done"
          /\ \A c \in marked : Migrated(c)

\* ---------------------------------------------------------------------- C7
\* C7: a run in which no requested column needs replacing ends with the
\* cells, columns and managers of the table as they were when it started,
\* and has written no cell.
C7_NoOpRunLeavesTable ==
    (pc = "done" /\ ~ isDataReplaced) =>
        /\ ms = ms0
        /\ Ops({"put", "move"}) = {}

\* ---------------------------------------------------------------------- C8
\* C8: the table is reordered only in a run that asks for it and has
\* replaced a column, and after the data of every replaced column has been
\* moved.
C8_ReorderGuard ==
    (pc = "reorder" \/ Ops({"reorder"}) # {}) =>
        /\ req.reorder
        /\ Ops({"define"}) # {}
        /\ \A i \in Ops({"define"}) :
              \E j \in Ops({"moved"}) :
                  /\ log[j].col = log[i].col
                  /\ \A k \in Ops({"reorder"}) : j < k

C8_Witness == pc = "done" /\ Ops({"reorder"}) # {}

\* ---------------------------------------------------------------------- C9
\* The column as the run leaves it once its data has been moved.
AsMigrated(columnName) ==
    LET before == IF columnName = WeightName
                  THEN ms0.cols[columnName]
                  ELSE ReplaceRows(columnName, ms0.cols[columnName], <<>>, 1).col
        kind == KindOf(columnName)
    IN  MoveRows(columnName, kind, before,
                 EmptyColumn(DyscoName, kind, before.shape), 1, NRows)

\* C9: a failure ends the run: nothing is defined, moved or reordered after
\* it, and a column whose data had been moved before it is migrated still.
C9_FailureAborts ==
    /\ \A i \in Ops({"fail"}) : i = Len(log) /\ pc = "error"
    /\ pc = "error" =>
          /\ Ops({"fail"}) # {}
          /\ \A i \in Ops({"moved"}) :
                /\ ms.cols[log[i].col] = AsMigrated(log[i].col)
                /\ ms.old[log[i].col] = NoColumn
          /\ \A c \in AllColumnNames : Bound(ms0, c) => Bound(ms, c)

\* The data of the first column has been moved and the move of the second
\* has failed.
C9_Witness == pc = "error" /\ err = "io" /\ Ops({"moved"}) # {}

\* --------------------------------------------------------------------- C10
BothRequested == Requested = AllColumnNames /\ Len(ms0.mgrs) = 0

\* C10: when WEIGHT_SPECTRUM and DATA are requested on a table without a
\* DyscoStMan manager, only the first column constructs a manager, with
\* the configuration of the request; the later column is attached to it;
\* and WEIGHT_SPECTRUM is handled as float, DATA as complex.
C10_SharedManager ==
    BothRequested =>
        /\ Cardinality(Ops({"construct"})) <= 1
        /\ \A i \in Ops({"construct"}) : log[i].col = columnNames[1]
        /\ \A i \in Ops({"define"}) : log[i].flag = (log[i].col = columnNames[1])
        /\ \A i \in Ops({"prepare", "create", "define", "move", "moved"}) :
              log[i].kind = IF log[i].col = WeightName THEN "float" ELSE "complex"
        /\ pc = "done" =>
              /\ Cardinality(Ops({"construct"})) = 1
              /\ ms.mgrs = <<Configured(req.config)>>
              /\ \A c \in AllColumnNames :
                    Bound(ms, c) /\ ms.cols[c].kind = StoredKind(c)

C10_Witness == BothRequested /\ pc = "done" /\ Ops({"moved"}) # {}

\* --------------------------------------------------------------------- C11
\* ms->nrow(): the rows a column of the table has.
RowCount(col) == Cardinality(DOMAIN col.cells)

ToReplace == {c \in Requested : ~ Bound(ms0, c)}

\* They do not have one shape, or one of them has none.
ShapesDisagree ==
    \E c \in ToReplace :
        \/ ms0.cols[c].shape = 0
        \/ \E d \in ToReplace : ms0.cols[d].shape # ms0.cols[c].shape

\* C12: a run whose columns to replace disagree in shape (or of which one
\* has no shape) does not get past the loop that prepares the columns: it
\* ends there in the shape error, and it has constructed no manager, defined
\* no column and moved no data.  No other run ends in the shape error.
C12_ShapeMismatchFatal ==
    /\ ShapesDisagree =>
          /\ pc \in {"start", "preprocess", "prepare", "error"}
          /\ pc = "error" => err = "shape" /\ log[Len(log) - 1].op = "prepare"
          /\ Ops({"create", "construct", "define", "move", "moved", "reorder"}) = {}
          /\ ms.mgrs = ms0.mgrs
          /\ ms.old = ms0.old
          /\ \A c \in AllColumnNames : ms.cols[c].mgr = ms0.cols[c].mgr
    /\ err = "shape" => ShapesDisagree

\* A run on two columns of two shapes has ended in the shape error.
C12_Witness ==
    /\ pc = "error"
    /\ err = "shape"
    /\ \A c \in ToReplace : ms0.cols[c].shape # 0
    /\ Cardinality(ToReplace) = 2

\* A run on a column without a shape has ended in the shape error.
C12_WitnessDegenerate ==
    /\ pc = "error"
    /\ err = "shape"
    /\ \E c \in ToReplace : ms0.cols[c].shape = 0

\* --------------------------------------------------------------------- C14
\* What dscompress can print that tells of the loss of accuracy ("the
\* compression error is applied twice to the data"): only its usage text.
AccuracyLossTexts == {"usage"}

\* C14: a run asked to reorder has, when it ends, printed a text that tells
\* of the loss of accuracy that comes with reordering.
C14_ReorderWarned ==
    (req.reorder /\ Terminal) =>
        \E i \in Ops({"print"}) : log[i].col \in AccuracyLossTexts

\* --------------------------------------------------------------------- C15
\* The steps of the migration of a column.
MigrationOps == {"prepare", "create", "construct", "define", "move", "moved"}

\* C15: when a step of the migration of a column is taken, the pass that
\* replaces the flagged values of that column (which WEIGHT_SPECTRUM does not
\* get) has been through all its rows, and every put of the pass into that
\* column has been issued before; the pass of every requested column is
\* over when the first column is prepared.
C15_PassBeforeMigration ==
    /\ \A i \in Ops(MigrationOps) :
          /\ NeedsPass(log[i].col) =>
                \E j \in Ops({"preprocessed"}) : log[j].col = log[i].col /\ j < i
          /\ \A j \in Ops({"put", "preprocessed"}) : log[j].col = log[i].col => j < i
    /\ pc \in {"prepare", "create", "move", "reorder", "done"} =>
          \A c \in Requested :
              NeedsPass(c) => \E j \in Ops({"preprocessed"}) : log[j].col = c

\* A run has put NaN in a row of a column and moved that row afterwards.
C15_Witness ==
    /\ pc = "done"
    /\ \E i \in Ops({"put"}) :
          \E j \in Ops({"move"}) :
              log[j].col = log[i].col /\ log[j].row = log[i].row /\ i < j

\* --------------------------------------------------------------------- C16
\* The phases of main() in their order.
PhaseRank(p) ==
    CASE p = "start" -> 0
      [] p = "preprocess" -> 1
      [] p = "prepare" -> 2
      [] p = "create" -> 3
      [] p = "move" -> 4
      [] p = "reorder" -> 5
      [] OTHER -> 6

DefineOps == {"create", "construct", "define"}
MoveOps == {"move", "moved"}

\* What the run has done is in the order of the phases.
PhasesInOrder ==
    /\ \A j \in Ops(DefineOps) :
          /\ \A i \in Ops({"prepare"}) : i < j
          /\ \A c \in Requested : \E i \in Ops({"prepare"}) : log[i].col = c
    /\ \A j \in Ops(MoveOps) :
          /\ \A i \in Ops(DefineOps) : i < j
          /\ \A c \in Requested : \E i \in Ops({"create"}) : log[i].col = c
    /\ \A j \in Ops({"reorder"}) :
          /\ \A i \in Ops(MoveOps) : i < j
          /\ \A c \in Requested : \E i \in Ops({"moved"}) : log[i].col = c

\* The rows of a column are moved one after the other, and all of them
\* before a row of another column is.
RowsMovedTogether ==
    /\ \A j \in Ops({"moved"}) :
          \A r \in 1..NRows :
              /\ j - 1 - NRows + r \in Ops({"move"})
              /\ log[j - 1 - NRows + r].col = log[j].col
              /\ log[j - 1 - NRows + r].row = r
    /\ \A i \in Ops({"move"}) :
          \A j \in Ops({"move"}) :
              (i < j /\ log[i].col # log[j].col) =>
                  \E k \in Ops({"moved"}) : i < k /\ k < j /\ log[k].col = log[i].col

\* C16: within a run every requested column is prepared before a column is
\* defined, every column is defined before a row is moved, the rows of a
\* column are all moved before a row of the next column is, the table is
\* reordered after every move, and main() never returns to an earlier
\* phase.
C16_PhaseOrdering ==
    /\ [](PhasesInOrder /\ RowsMovedTogether)
    /\ [][pc # "done" => PhaseRank(pc') >= PhaseRank(pc)]_vars

\* A run on two columns has gone through every phase.
C16_Witness ==
    /\ pc = "done"
    /\ NColumns = 2
    /\ Cardinality(Ops({"moved"})) = 2
    /\ Ops({"reorder"}) # {}

\* --------------------------------------------------------------------- C17
\* C17: the pass puts a row only if a cell of it has changed: every put of
\* the pass is of a row that has a flagged cell and in which the replacing
\* has changed a value (the entry of a put tells whether it has), so that a
\* row whose flagged cells hold NaN already is not put again.
C17_WriteBackOnlyOnChange ==
    \A i \in Ops({"put"}) :
        /\ \E c \in 1..NCells : flag[log[i].row][c]
        /\ log[i].flag

\* --------------------------------------------------------------------- C18
\* The columns the pass may write: the requested ones but WEIGHT_SPECTRUM.
PassColumns == Requested \ {WeightName}

\* C18: the pass puts only into the requested columns other than
\* WEIGHT_SPECTRUM; a step of the pass leaves every other column, the
\* superseded columns and the managers as they are; and no step of a run
\* writes the FLAG column.
C18_PassFrame ==
    /\ [](\A i \in Ops({"put"}) : log[i].col \in PassColumns)
    /\ [][pc = "preprocess" =>
            /\ \A c \in AllColumnNames \ PassColumns : ms'.cols[c] = ms.cols[c]
            /\ ms'.old = ms.old
            /\ ms'.mgrs = ms.mgrs]_vars
    /\ [][flag' = flag]_vars

\* The pass has written a row of DATA in a run that asks for both columns.
C18_Witness ==
    /\ BothRequested
    /\ pc = "prepare"
    /\ \E i \in Ops({"put"}) : log[i].col = DataName
    /\ ms.cols[DataName] # ms0.cols[DataName]

\* --------------------------------------------------------------------- C20
\* C20: once the pass has been over a column, a second pass over it would
\* leave every cell of the column as the first pass has left it.
C20_PassIdempotent ==
    \A c \in PassColumns :
        Preprocessed(c) => ReplaceRows(c, ms.cols[c], <<>>, 1).col = ms.cols[c]

\* --------------------------------------------------------------------- C13
\* The positions of a command line that hold its options: the arguments
\* with a '-' from the first one on, but the values of the options that
\* take one, up to the first argument without a '-' (the path).
RECURSIVE OptionPositions(_, _)
OptionPositions(args, i) ==
    IF i > Len(args) \/ ~ Dash(args[i])
    THEN {}
    ELSE {i} \cup OptionPositions(args, IF args[i] \in ValueOptions THEN i + 2 ELSE i + 1)

UnknownOptionGiven ==
    \E i \in OptionPositions(cmd.argv, 1) : cmd.argv[i] \notin KnownOptions

NoPathGiven ==
    \A i \in 1..Len(cmd.argv) :
        i \in OptionPositions(cmd.argv, 1)
        \/ (i > 1 /\ i - 1 \in OptionPositions(cmd.argv, 1)
                  /\ cmd.argv[i - 1] \in ValueOptions)

\* C19: main() reads argv only at positions below argc, and a run whose
\* command line has no path after its options (or ends with an option that
\* takes a value) does not open a table.
C19_ParsingInBounds ==
    /\ \A p \in cmd.reads : p < Argc
    /\ (Argc >= 2 /\ NoPathGiven) => ~ opened
====
